---- MODULE Spec2Model ----
(***************************************************************************)
(* Invoice-to-carbon dashboards of challengeEntreprendre_g29.              *)
(*                                                                         *)
(*   Spec         src/app.py          the cascade (keywords, reference     *)
(*                                    table, unit judge, estimator), one   *)
(*                                    run over one file, every answer of   *)
(*                                    every service                        *)
(*   SpecSession  src/app.py          the same steps, several runs over    *)
(*                                    one or two files in one session, one *)
(*                                    answer of each kind                  *)
(*   SpecLedger   src/app.py, src/test.py                                  *)
(*                                    runs of app.py over one file, and    *)
(*                                    the manual entry form of test.py     *)
(*   SpecQuiet    src/app.py, src/streamlit_carbon_app.py                  *)
(*                                    runs and clicks that may end without *)
(*                                    a row                                *)
(*   SpecSearch   src/app.py          one run over one line item, with the *)
(*                                    keyword answers that try the search  *)
(*                                    and the comparison of units          *)
(*   SpecStub     src/streamlit_carbon_app.py                              *)
(*                                    two-API variant (last_results)       *)
(*   SpecBatch    src/streamlit_carbon_app.py                              *)
(*                                    the same steps, one click            *)
(*   SpecDemo     src/test.py         demonstration data and the manual    *)
(*                                    entry form                           *)
(*                                                                         *)
(* Conventions.  Text on which the code computes (units, keywords,         *)
(* reference names, stub descriptions) is a sequence of one-character      *)
(* strings; text the code only carries around is a TLA+ string.  A Python  *)
(* Optional is a sequence of length at most one (None is <<>>).  A Python  *)
(* dict is a record with a field "has", the set of keys it holds; fields   *)
(* outside "has" hold a filler and are never read but through Get.         *)
(* Emission factors and confidences are integers in hundredths (0.95 is    *)
(* 95), quantities are integers, so that products are exact.               *)
(***************************************************************************)
EXTENDS Integers, Sequences, FiniteSets, TLC

(* ----------------------------- Python values -------------------------- *)

None == <<>>

Some(v) == <<v>>

Get(d, k, default) == IF k \in d.has THEN d[k] ELSE default

Max(a, b) == IF a >= b THEN a ELSE b

SeqToSet(s) == { s[k] : k \in 1..Len(s) }

UpperCase == <<"A","B","C","D","E","F","G","H","I","J","K","L","M",
               "N","O","P","Q","R","S","T","U","V","W","X","Y","Z">>

LowerCase == <<"a","b","c","d","e","f","g","h","i","j","k","l","m",
               "n","o","p","q","r","s","t","u","v","w","x","y","z">>

\* the lowercase letter of each uppercase letter
LowerOf ==
    [c \in SeqToSet(UpperCase) |->
        LowerCase[CHOOSE k \in DOMAIN UpperCase : UpperCase[k] = c]]

\* str.lower() on one character
LowerChar(c) == IF c \in DOMAIN LowerOf THEN LowerOf[c] ELSE c

\* str.lower()
Lower(s) == [k \in 1..Len(s) |-> LowerChar(s[k])]

IsNotSpace(c) == c # " "

\* str.replace(" ", "")
RemoveSpaces(s) == SelectSeq(s, IsNotSpace)

WordChars ==
    SeqToSet(UpperCase) \cup SeqToSet(LowerCase)
    \cup {"0","1","2","3","4","5","6","7","8","9"} \cup {"_"}

\* the characters the regular expression class \w matches
WordChar(c) == c \in WordChars

\* where the run of word characters that holds position a ends
RECURSIVE run_end(_, _)
run_end(s, a) ==
    IF a < Len(s) /\ WordChar(s[a + 1]) THEN run_end(s, a + 1) ELSE a

\* set(re.findall(r'\w+', s)): the maximal runs of word characters of s
Words(s) ==
    { SubSeq(s, a, run_end(s, a)) :
        a \in { k \in 1..Len(s) : WordChar(s[k]) /\ (k = 1 \/ ~WordChar(s[k - 1])) } }

\* the values json.loads can give for the key "compatible", by kind and
\* by Python truthiness
PyTrue == [kind |-> "bool", truthy |-> TRUE]

PyFalse == [kind |-> "bool", truthy |-> FALSE]

PyStrFalse == [kind |-> "str", truthy |-> TRUE]     \* the string "false"

PyNull == [kind |-> "null", truthy |-> FALSE]

Truthy(v) == v.truthy

(* ------------------------ quantities of a line item ------------------- *)

\* a JSON value found under "quantity": a number, a numeral in a string,
\* null, or a string that is no numeral
QtyNum(n) == [kind |-> "num", num |-> n]

QtyNumeral(n) == [kind |-> "numeral", num |-> n]

QtyNull == [kind |-> "null", num |-> 0]

QtyWord == [kind |-> "word", num |-> 0]

\* float(v) raises TypeError on None and ValueError on a non-numeral
FloatRaises(v) == v.kind \in {"null", "word"}

\* float(v)
Float(v) == v.num

(* --------------------------- reference table -------------------------- *)

U_passager_km == <<"p","a","s","s","a","g","e","r",".","k","m">>

U_Passager_KM == <<"P","a","s","s","a","g","e","r"," ","."," ","K","M">>

U_jour == <<"j","o","u","r">>

U_unite == <<"u","n","i","t","e">>

\* rows of base-carbone.csv kept by load_ademe_data: 'Nom base français',
\* 'Unité français', 'Total poste non décomposé', 'Type Ligne'
AdemeRows ==
    << [name   |-> <<"T","r","a","i","n"," ","r","e","g","i","o","n","a","l",","," ",
                     "p","a","r"," ","p","a","s","s","a","g","e","r",".","k","m">>,
        unit   |-> U_passager_km,
        factor |-> 3,
        type   |-> "Element"],
       [name   |-> <<"T","R","A","I","N"," ","g","r","a","n","d","e"," ",
                     "v","i","t","e","s","s","e">>,
        unit   |-> U_passager_km,
        factor |-> 2,
        type   |-> "Element"],
       [name   |-> <<"S","t","a","n","d"," ","d","e"," ","s","a","l","o","n">>,
        unit   |-> U_jour,
        factor |-> 7,
        type   |-> "Poste"] >>

\* a load that takes the table without looking at its columns
load_unchecked(file) ==
    IF file = "absent" THEN None ELSE Some(AdemeRows)

\* load_ademe_data: the table, or None when the file is absent, lacks a
\* required column or cannot be read
load_ademe_data(file) ==
    IF file = "ok" THEN Some(AdemeRows) ELSE None

AdemeFiles == {"ok", "absent", "missing_column"}

(* ------------------------- search_ademe_base_carbone ------------------ *)

search_terms(keywords) == { Lower(keywords[k]) : k \in 1..Len(keywords) }

product_name_terms(row) == LET low == Lower(row.name) IN Words(low)

score(keywords, row) ==
    Cardinality(search_terms(keywords) \cap product_name_terms(row))

\* a loop that lets a later row of equal score take the place of the best
RECURSIVE best_after_last(_, _, _)
best_after_last(keywords, df, n) ==
    IF n = 0 THEN [max_score |-> 0, best_match_row |-> None]
    ELSE LET prev == best_after_last(keywords, df, n - 1)
             sc   == score(keywords, df[n])
         IN  IF sc >= prev.max_score /\ sc > 0
             THEN [max_score |-> sc, best_match_row |-> Some(df[n])]
             ELSE prev

\* the loop over ademe_df.iterrows(): the best row and its score after the
\* first n rows
RECURSIVE best_after(_, _, _)
best_after(keywords, df, n) ==
    IF n = 0 THEN [max_score |-> 0, best_match_row |-> None]
    ELSE LET prev == best_after(keywords, df, n - 1)
             sc   == score(keywords, df[n])
         IN  IF sc > prev.max_score
             THEN [max_score |-> sc, best_match_row |-> Some(df[n])]
             ELSE prev

\* a threshold that asks for every keyword
min_required_all(keywords) ==
    Max(1, Cardinality(search_terms(keywords)))

\* max(1, len(search_terms) // 2)
min_required_score(keywords) ==
    Max(1, Cardinality(search_terms(keywords)) \div 2)

\* keywords is structured_info.get("keywords"): None when the key is absent
search_ademe_base_carbone(keywords, ademe_df) ==
    IF ademe_df = None \/ keywords = None \/ keywords[1] = <<>> THEN None
    ELSE LET found == best_after(keywords[1], ademe_df[1], Len(ademe_df[1]))
         IN  IF found.max_score >= min_required_score(keywords[1])
             THEN found.best_match_row
             ELSE None

(* ----------------------- replies of the Gemini service ----------------- *)

\* What one generate_content call gives: the call (or response.text)
\* raises, or it gives a text.  A text is a sequence of the characters
\* "{" and "}", "o" for the members of the JSON object obj written out
\* (there may be none), "x" for a character of prose, "J" for the fence
\* ```json and "F" for the fence ```.
ObjectText == <<"{", "o", "}">>

Raised(filler) == [raises |-> TRUE, text |-> <<>>, obj |-> filler]

\* Voici la reponse.
Prose(filler) == [raises |-> FALSE, text |-> <<"x", "x">>, obj |-> filler]

\* {oops}
Garbage(filler) == [raises |-> FALSE, text |-> <<"{", "x", "}">>, obj |-> filler]

\* the object and nothing else
Object(o) == [raises |-> FALSE, text |-> ObjectText, obj |-> o]

\* the object between two pieces of prose
Wrapped(o) ==
    [raises |-> FALSE, text |-> <<"x">> \o ObjectText \o <<"x">>, obj |-> o]

\* the object, then prose that holds braces: {...} (voir {note})
Annotated(o) ==
    [raises |-> FALSE, text |-> ObjectText \o <<"x", "{", "x", "}">>, obj |-> o]

Failures(filler) == { Raised(filler), Prose(filler), Garbage(filler) }

\* the positions of the characters of cs in text
positions(text, cs) == { k \in 1..Len(text) : text[k] \in cs }

Least(S) == CHOOSE k \in S : \A m \in S : k <= m

Greatest(S) == CHOOSE k \in S : \A m \in S : m <= k

\* re.search(r'\{[\s\S]*\}', text): the star is greedy, so the match runs
\* from the first "{" to the last "}" of the text; None without a "}"
\* after a "{"
re_search(text) ==
    LET opens  == positions(text, {"{"})
        closes == positions(text, {"}"})
    IN  IF opens = {} \/ closes = {} \/ Greatest(closes) < Least(opens) THEN None
        ELSE Some(SubSeq(text, Least(opens), Greatest(closes)))

\* json.loads(s): the object when s is the text of one object and nothing
\* else; anything else raises
json_raises(s) == s # ObjectText

json_loads(s, obj) == obj

\* the decoder of get_structured_info_from_llm and are_units_compatible:
\* re.search(r'\{[\s\S]*\}', response.text), then json.loads of the match,
\* inside try; None when the call raised, when nothing matched and when
\* json.loads raised
decode_span(reply) ==
    IF reply.raises THEN None
    ELSE LET json_match == re_search(reply.text)
         IN  IF json_match = None THEN None
             ELSE IF json_raises(json_match[1]) THEN None
             ELSE Some(json_loads(json_match[1], reply.obj))

\* re.search(r'```json\s*([\s\S]*?)\s*```', text): group(1) runs from the
\* first ```json to the first ``` after it
fenced_group(text) ==
    LET starts == positions(text, {"J"})
        ends   == IF starts = {} THEN {}
                  ELSE { k \in positions(text, {"J", "F"}) : k > Least(starts) }
    IN  IF starts = {} \/ ends = {} THEN None
        ELSE Some(SubSeq(text, Least(starts) + 1, Least(ends) - 1))

\* the decoder of get_carbon_analysis_from_llm and
\* extract_invoice_data_from_pdf: json.loads of the fenced block if there
\* is one, else of the whole text, inside try
decode_fenced(reply) ==
    IF reply.raises THEN None
    ELSE LET json_match   == fenced_group(reply.text)
             cleaned_text == IF json_match # None THEN json_match[1]
                             ELSE reply.text
         IN  IF json_raises(cleaned_text) THEN None
             ELSE Some(json_loads(cleaned_text, reply.obj))

(* ---------------------- get_structured_info_from_llm ------------------ *)

NoHint == [has |-> {}, keywords |-> <<>>, unit |-> <<>>]

\* {"keywords": ["train", "transport", "trajet"], "unit": "trajet"}
HintTrain ==
    [has |-> {"keywords", "unit"},
     keywords |-> << <<"t","r","a","i","n">>,
                     <<"t","r","a","n","s","p","o","r","t">>,
                     <<"t","r","a","j","e","t">> >>,
     unit |-> <<"t","r","a","j","e","t">>]

\* {"keywords": [...], "unit": "trajet"}
Keywords(l) ==
    [has |-> {"keywords", "unit"}, keywords |-> l,
     unit |-> <<"t","r","a","j","e","t">>]

\* answers that try the search and the comparison of units:
\* ["stand", "salon"] with unit "Jour\t", and with unit "trajet"
\* ["train regional", "sncf"], ["train", "avion", "bus", "velo"],
\* ["Train", "train", "bus", "velo"], ["train", "regional", "bus", "velo"],
\* ["train", "vitesse"]
SearchHintObjects ==
    { [has |-> {"keywords", "unit"},
       keywords |-> << <<"s","t","a","n","d">>, <<"s","a","l","o","n">> >>,
       unit |-> <<"J","o","u","r","\t">>],
      Keywords(<< <<"t","r","a","i","n"," ","r","e","g","i","o","n","a","l">>,
                  <<"s","n","c","f">> >>),
      Keywords(<< <<"t","r","a","i","n">>, <<"a","v","i","o","n">>,
                  <<"b","u","s">>, <<"v","e","l","o">> >>),
      Keywords(<< <<"T","r","a","i","n">>, <<"t","r","a","i","n">>,
                  <<"b","u","s">>, <<"v","e","l","o">> >>),
      Keywords(<< <<"t","r","a","i","n">>, <<"r","e","g","i","o","n","a","l">>,
                  <<"b","u","s">>, <<"v","e","l","o">> >>),
      Keywords(<< <<"t","r","a","i","n">>, <<"v","i","t","e","s","s","e">> >>) }

\* {"keywords": ["Train", "regional"], "unit": "Passager . KM"},
\* {"keywords": ["licence", "logiciel"], "unit": "licence"},
\* {"keywords": ["train", "transport"]}, {"unit": "jour"}, {}
HintObjects ==
    { HintTrain,
      [has |-> {"keywords", "unit"},
       keywords |-> << <<"T","r","a","i","n">>,
                       <<"r","e","g","i","o","n","a","l">> >>,
       unit |-> U_Passager_KM],
      [has |-> {"keywords", "unit"},
       keywords |-> << <<"l","i","c","e","n","c","e">>,
                       <<"l","o","g","i","c","i","e","l">> >>,
       unit |-> <<"l","i","c","e","n","c","e">>],
      [has |-> {"keywords"},
       keywords |-> << <<"t","r","a","i","n">>,
                       <<"t","r","a","n","s","p","o","r","t">> >>,
       unit |-> <<>>],
      [has |-> {"unit"}, keywords |-> <<>>, unit |-> U_jour],
      NoHint }

HintReplies == Failures(NoHint) \cup { Object(o) : o \in HintObjects }

get_structured_info_from_llm(description, reply) == decode_span(reply)

(* -------------------------- are_units_compatible ---------------------- *)

NoVerdict == [has |-> {}, compatible |-> PyFalse]

Verdict(v) == [has |-> {"compatible"}, compatible |-> v]

JudgeReplies ==
    Failures(NoVerdict)
    \cup { Object(Verdict(v)) : v \in {PyTrue, PyFalse, PyStrFalse, PyNull} }
    \cup { Object(NoVerdict) }

\* a comparison that forgets to lowercase
same_unit_cased(invoice_unit, ademe_unit) ==
    RemoveSpaces(invoice_unit) = RemoveSpaces(ademe_unit)

\* invoice_unit.lower().replace(" ", "") == ademe_unit.lower().replace(" ", "")
same_unit(invoice_unit, ademe_unit) ==
    RemoveSpaces(Lower(invoice_unit)) = RemoveSpaces(Lower(ademe_unit))

\* the value are_units_compatible returns: True on the fast path, else
\* whatever the answer holds under "compatible" (False when the key is
\* absent, when there is no span and when anything raised)
are_units_compatible(description, invoice_unit, ademe_unit, reply) ==
    IF same_unit(invoice_unit, ademe_unit) THEN PyTrue
    ELSE IF decode_span(reply) = None THEN PyFalse
    ELSE Get(decode_span(reply)[1], "compatible", PyFalse)

(* ---------------------- get_carbon_analysis_from_llm ------------------ *)

NoText == [text |-> "N/A", name |-> <<>>, unit |-> <<>>]

NoAnalysis ==
    [has |-> {}, category |-> "", estimated_factor_kgCO2e_per_unit |-> 0,
     justification |-> NoText, confidence_score |-> 0]

AnalysisKeys ==
    {"category", "estimated_factor_kgCO2e_per_unit", "justification",
     "confidence_score"}

FullEstimate ==
    [has |-> AnalysisKeys,
     category |-> "Transport", estimated_factor_kgCO2e_per_unit |-> 5,
     justification |-> [text |-> "DETAIL DU CALCUL", name |-> <<>>, unit |-> <<>>],
     confidence_score |-> 80]

\* an answer whose "confidence_score" is 1.5
BoldEstimate ==
    [has |-> AnalysisKeys,
     category |-> "Transport", estimated_factor_kgCO2e_per_unit |-> 5,
     justification |-> [text |-> "DETAIL DU CALCUL", name |-> <<>>, unit |-> <<>>],
     confidence_score |-> 150]

EstimateObjects ==
    { FullEstimate,
      [has |-> AnalysisKeys \ {"estimated_factor_kgCO2e_per_unit"},
       category |-> "Transport", estimated_factor_kgCO2e_per_unit |-> 0,
       justification |-> [text |-> "DETAIL DU CALCUL", name |-> <<>>, unit |-> <<>>],
       confidence_score |-> 80],
      NoAnalysis }

EstimateReplies == Failures(NoAnalysis) \cup { Object(o) : o \in EstimateObjects }

get_carbon_analysis_from_llm(description, quantity, reply) == decode_fenced(reply)

(* ---------------------- extract_invoice_data_from_pdf ----------------- *)

MaxItems == 2

TrainItem ==
    [has |-> {"description", "quantity"},
     description |-> "Billet de train Paris-Lyon", quantity |-> QtyNum(2)]

LicenceItem ==
    [has |-> {"description", "quantity"},
     description |-> "Licence logiciel", quantity |-> QtyNum(1)]

ItemSet ==
    { TrainItem,
      [has |-> {"description", "quantity"},
       description |-> "Stand 6 m2", quantity |-> QtyNull] }

\* the lists a "line_items" key can hold: those over ItemSet, and one of
\* two items that differ in their description
LineItemLists ==
    UNION { [1..n -> ItemSet] : n \in 0..MaxItems }
    \cup { <<TrainItem, LicenceItem>> }

NoInvoice == [has |-> {}, invoice_date |-> "", line_items |-> <<>>]

InvoiceObjects ==
    { [has |-> {"invoice_date", "line_items"},
       invoice_date |-> "2025-03-01", line_items |-> l] : l \in LineItemLists }
    \cup { [has |-> {"invoice_date"}, invoice_date |-> "2025-03-01",
            line_items |-> <<>>] }

\* an invoice that holds the line items l
InvoiceOf(l) ==
    [has |-> {"invoice_date", "line_items"}, invoice_date |-> "2025-03-01",
     line_items |-> l]

\* an invoice of two line items that differ in their description
MixedInvoice == InvoiceOf(<<TrainItem, LicenceItem>>)

\* an invoice of one line item
OneItemInvoice == InvoiceOf(<<TrainItem>>)

\* upload |-> FALSE: genai.upload_file raises, outside the try
ExtractReplies ==
    { [upload |-> u, reply |-> r] :
        u \in BOOLEAN,
        r \in {Raised(NoInvoice)} \cup { Object(o) : o \in InvoiceObjects } }

extract_invoice_data_from_pdf(pdf_path, answer) ==
    IF ~answer.upload THEN [raised |-> TRUE, value |-> None]
    ELSE [raised |-> FALSE, value |-> decode_fenced(answer.reply)]

(* ============================ src/app.py ============================== *)

MaxRuns == 2

\* an uploaded file: its name and, as a mark of what it holds, its content
Pdf(name, content) == [name |-> name, content |-> content]

FileA == Pdf("a.pdf", "v1")

FileB == Pdf("b.pdf", "v1")

\* another document under the name of FileA
FileA2 == Pdf("a.pdf", "v2")

Uploads == { <<FileA>>, <<FileA2>>, <<FileA, FileB>> }

(* ------------------------------ st.cache_data ------------------------- *)

\* the memo of one decorated function: what it returned, by arguments
EmptyMemo == [k \in {} |-> None]

Cached(memo, key) == key \in DOMAIN memo

Put(memo, key, v) ==
    [k \in DOMAIN memo \cup {key} |-> IF k = key THEN v ELSE memo[k]]

\* the memos of the four decorated functions that call Gemini; that of
\* extract_invoice_data_from_pdf holds with each value, as history, the
\* content of the file it was extracted from
NoCache ==
    [hint |-> EmptyMemo, judge |-> EmptyMemo, pdf |-> EmptyMemo,
     estimate |-> EmptyMemo]

VARIABLES
    api_key,            \* a Gemini key was found in the secrets or typed in
    configured,         \* genai.configure(api_key=api_key) went through
    ademe_df,           \* load_ademe_data(): Optional table
    ademe_file,         \* history: the state of base-carbone.csv at the load
    results_df,         \* st.session_state.results_df, a sequence of rows
    cache_data,         \* st.cache_data: the memos, kept by the process
    uploaded_files,     \* the files the uploader holds
    pc,                 \* position of the script in the button handler
    i, j,               \* 1-based positions in uploaded_files, line_items
    extracted_data,     \* Optional dict of the current file
    all_results,        \* rows of the running batch
    description, structured_info, best_ademe_match, compatible, analysis,
    source,             \* locals of the cascade for the current item
    temp_pdfs,          \* names present in ./temp_pdfs
    progress,           \* <<numerator, denominator>> last given to the bar
    trace,              \* history: steps run for the current item
    item_base,          \* history: Len(all_results) when the item began
    judge_reply,        \* history: Optional answer of the judgment call the
                        \* last step made
    hint_reply,         \* history: Optional answer of the keyword call the
                        \* last step made
    estimate,           \* history: Optional return of the estimator
    branches,           \* history: per row of all_results, who made it
    results_branches,   \* history: the same per row of results_df
    base_df,            \* history: results_df when the run was launched
    after_reset,        \* history: "pending" after a reset, "run" in the
                        \* run that follows it, else "none"
    reset_rows,         \* history: rows the last reset removed
    op,                 \* history: the last handler or step that ran
    cause,              \* history: what raised, when pc = "crashed"
    runs                \* number of runs launched

sessionVars == <<api_key, configured, ademe_df, ademe_file, results_df, results_branches,
                 runs>>

runVars == <<uploaded_files, i, j, extracted_data, all_results, branches,
             temp_pdfs, progress, base_df>>

itemVars == <<description, structured_info, best_ademe_match, compatible,
              analysis, source, trace, item_base, judge_reply, hint_reply,
              estimate>>

appVars == <<sessionVars, cache_data, runVars, itemVars, pc, after_reset,
             reset_rows, op, cause>>

\* src/streamlit_carbon_app.py
VARIABLES
    last_results,       \* st.session_state['last_results']: Optional frame
    use_api_factors,    \* the checkbox
    stub_files,         \* uploaded_files: the files the uploader holds
    stub_pc,            \* position of the script in the button handler
    file_no, item_no,   \* 1-based positions in stub_files, all_items
    all_items,          \* items of the files read so far
    rows,               \* rows of compute_carbon so far
    read_files,         \* history: positions of the files read
    stub_base,          \* history: last_results when the handler began
    stub_op,            \* history: the last step that ran
    stub_cause,         \* history: what raised, when stub_op = "failed"
    stub_runs           \* number of clicks handled

stubVars == <<last_results, use_api_factors, stub_files, stub_pc, file_no,
              item_no, all_items, rows, read_files, stub_base, stub_op,
              stub_cause, stub_runs>>

\* src/test.py
VARIABLES
    demo_df,            \* st.session_state.results_df
    demo_op,            \* history: the last handler that ran
    entries             \* number of forms submitted

demoVars == <<demo_df, demo_op, entries>>

vars == <<appVars, stubVars, demoVars>>

EmptyFrame == <<>>                                   \* pd.DataFrame()

ReferenceTag == "ADEME (Valide)"                     \* "ADEME (Validé)"

EstimateTag == "IA (Estimation)"

ItemIdle ==
    /\ description = ""
    /\ structured_info = None
    /\ best_ademe_match = None
    /\ compatible = PyFalse
    /\ analysis = None
    /\ source = ""
    /\ trace = <<>>
    /\ item_base = 0
    /\ judge_reply = None
    /\ hint_reply = None
    /\ estimate = None

AppInit ==
    /\ api_key = FALSE
    /\ configured = FALSE
    /\ ademe_file \in AdemeFiles
    /\ ademe_df = load_ademe_data(ademe_file)
    /\ results_df = EmptyFrame
    /\ results_branches = <<>>
    /\ runs = 0
    /\ cache_data = NoCache
    /\ uploaded_files = <<>>
    /\ i = 0
    /\ j = 0
    /\ extracted_data = None
    /\ all_results = <<>>
    /\ branches = <<>>
    /\ temp_pdfs = {}
    /\ progress = <<0, 1>>
    /\ base_df = <<>>
    /\ ItemIdle
    /\ pc = "idle"
    /\ after_reset = "none"
    /\ reset_rows = 0
    /\ op = "start"
    /\ cause = ""

(* ------------------------------ the cascade --------------------------- *)

line_items == extracted_data[1].line_items

item == line_items[j]

\* a gate that lets a missing hint through
hint_gate_open(info) == TRUE

\* `if structured_info:`
hint_gate(info) == info # None /\ info[1].has # {}

\* structured_info.get("keywords")
keywords_of(info) ==
    IF info # None /\ "keywords" \in info[1].has THEN Some(info[1].keywords)
    ELSE None

\* structured_info.get("unit", "unité")
invoice_unit_of(info) == Get(info[1], "unit", U_unite)

reference_analysis(match, ademe_unit) ==
    [has |-> AnalysisKeys,
     category |-> match.type,
     estimated_factor_kgCO2e_per_unit |-> match.factor,
     justification |-> [text |-> "Correspondance validee", name |-> match.name,
                        unit |-> ademe_unit],
     confidence_score |-> 95]

\* a gate that keeps the reference row whatever the verdict
analysis_kept_on_refusal(verdict, match, before) ==
    Some(reference_analysis(match, match.unit))

\* `if are_units_compatible(...):` analysis = {...}
analysis_after_judge(verdict, match, before) ==
    IF Truthy(verdict) THEN Some(reference_analysis(match, match.unit)) ELSE before

\* `if are_units_compatible(...):` source = "ADEME (Validé)"
source_after_judge(verdict, before) ==
    IF Truthy(verdict) THEN "ADEME (Valide)" ELSE before

\* a fallback step that leaves the tag as it finds it
source_untouched(before) == before

\* `if analysis is None:` source = "IA (Estimation)"
source_at_fallback(before) == "IA (Estimation)"

\* `if analysis is None:` decides between the estimator and the row
step_after(a) == IF a = None THEN "fallback" ELSE "row"

raw_quantity(it) == Get(it, "quantity", QtyNum(1))

result_row(invoice_date, desc, it, a, src) ==
    [invoice_date |-> invoice_date,
     description |-> desc,
     quantity |-> Float(raw_quantity(it)),
     carbon_kg |-> Float(raw_quantity(it)) * Get(a, "estimated_factor_kgCO2e_per_unit", 0),
     category |-> Get(a, "category", "Non classe"),
     confidence |-> Get(a, "confidence_score", 0),
     justification |-> Get(a, "justification", NoText),
     source |-> src]

\* drop_duplicates(keep='last'): the positions kept, last occurrences
kept_last(s, n) ==
    LET last == { k \in 1..n : \A m \in (k + 1)..n : s[m] # s[k] }
        RECURSIVE upto(_)
        upto(k) == IF k = 0 THEN <<>>
                   ELSE IF k \in last THEN Append(upto(k - 1), k)
                   ELSE upto(k - 1)
    IN  upto(n)

\* DataFrame.drop_duplicates(): the positions kept, first occurrences
RECURSIVE kept(_, _)
kept(s, n) ==
    IF n = 0 THEN <<>>
    ELSE IF \E m \in 1..(n - 1) : s[m] = s[n] THEN kept(s, n - 1)
    ELSE Append(kept(s, n - 1), n)

pick(s, idx) == [k \in 1..Len(idx) |-> s[idx[k]]]

drop_duplicates(s) == pick(s, kept(s, Len(s)))

\* a merge that stores the frame of the run alone
batch_index(df, batch) == [k \in 1..Len(batch) |-> Len(df) + k]

\* `if all_results:` concat, drop_duplicates, reset_index: the positions
\* of concat([df, batch]) that are stored; without a batch, those of df
merge_index(df, batch) ==
    IF batch # <<>> THEN kept(df \o batch, Len(df) + Len(batch))
    ELSE [k \in 1..Len(df) |-> k]

\* a reset that forgets only the oldest row
cleared_head(df) == Tail(df)

\* st.session_state.results_df = pd.DataFrame()
cleared(df) == EmptyFrame

\* an item step that gives the items the whole share of their file
total_progress_unweighted(file, it, n_items, n_files) ==
    <<10 * (file - 1) * n_items + n_items + 10 * it, 10 * n_items * n_files>>

\* total_progress = (i + 0.1 + 0.8 * item_progress) / len(uploaded_files),
\* with item_progress = (j + 1) / len(line_items), as <<numerator,
\* denominator>>; file and it are the 1-based positions
total_progress(file, it, n_items, n_files) ==
    <<10 * (file - 1) * n_items + n_items + 8 * it, 10 * n_items * n_files>>

(* ------------------------------- the steps ---------------------------- *)

ClearItem ==
    /\ description' = ""
    /\ structured_info' = None
    /\ best_ademe_match' = None
    /\ compatible' = PyFalse
    /\ analysis' = None
    /\ source' = ""
    /\ trace' = <<>>
    /\ item_base' = 0
    /\ judge_reply' = None
    /\ hint_reply' = None
    /\ estimate' = None

\* an uncaught exception ends the script run
Crash(what) ==
    /\ pc' = "crashed"
    /\ cause' = what

\* sidebar: a key from st.secrets or typed in, then `if api_key:`
\* genai.configure, which goes through (ok) or raises and is reported
EnterApiKey(ok) ==
    /\ pc = "idle"
    /\ ~api_key
    /\ api_key' = TRUE
    /\ configured' = ok
    /\ op' = "key"
    /\ UNCHANGED <<stubVars, demoVars, cache_data>>
    /\ UNCHANGED <<ademe_df, ademe_file, results_df, results_branches, runs, runVars,
                   itemVars, pc, after_reset, reset_rows, cause>>

\* the button, enabled when files are uploaded and a key is set
LaunchAnalysis(files) ==
    /\ pc = "idle"
    /\ files # <<>>
    /\ api_key
    /\ runs < MaxRuns
    /\ runs' = runs + 1
    /\ uploaded_files' = files
    /\ all_results' = <<>>
    /\ branches' = <<>>
    /\ progress' = <<0, 1>>
    /\ base_df' = results_df
    /\ after_reset' = IF after_reset = "pending" THEN "run" ELSE "none"
    /\ reset_rows' = reset_rows
    /\ i' = 1
    /\ j' = 0
    /\ pc' = "stage"
    /\ op' = "launch"
    /\ UNCHANGED <<stubVars, demoVars, cache_data>>
    /\ UNCHANGED <<api_key, configured, ademe_df, ademe_file, results_df,
                   results_branches,
                   extracted_data, temp_pdfs, itemVars, cause>>

\* write the upload to temp_dir / uploaded_file.name, report progress
StageFile ==
    /\ pc = "stage"
    /\ temp_pdfs' = temp_pdfs \cup {uploaded_files[i].name}
    /\ progress' = <<10 * (i - 1) + 1, 10 * Len(uploaded_files)>>
    /\ pc' = "extract"
    /\ op' = "stage"
    /\ UNCHANGED <<stubVars, demoVars, cache_data>>
    /\ UNCHANGED <<sessionVars, uploaded_files, i, j, extracted_data,
                   all_results, branches, base_df, itemVars,
                   after_reset, reset_rows, cause>>

\* extract_invoice_data_from_pdf(str(pdf_path)) through its memo, keyed on
\* the path alone, then `if extracted_data and "line_items" in
\* extracted_data`; on a miss without a configured key genai.upload_file
\* raises, and a call that raises leaves no entry
ExtractInvoice(answer) ==
    /\ pc = "extract"
    /\ op' = "extract"
    /\ UNCHANGED <<stubVars, demoVars>>
    /\ LET pdf_path == uploaded_files[i].name
           hit      == Cached(cache_data.pdf, pdf_path)
           r        == IF hit
                       THEN [raised |-> FALSE, value |-> cache_data.pdf[pdf_path].value]
                       ELSE extract_invoice_data_from_pdf(pdf_path, answer)
       IN  /\ (~hit /\ ~configured) => ~answer.upload
           /\ cache_data' =
                  IF hit \/ r.raised THEN cache_data
                  ELSE [cache_data EXCEPT !.pdf =
                           Put(@, pdf_path, [value |-> r.value,
                                             content |-> uploaded_files[i].content])]
           /\ IF r.raised
              THEN /\ Crash("upload_file")
                   /\ UNCHANGED <<extracted_data, j>>
              ELSE /\ extracted_data' = r.value
                   /\ cause' = cause
                   /\ IF /\ r.value # None
                         /\ r.value[1].has # {}
                         /\ "line_items" \in r.value[1].has
                         /\ r.value[1].line_items # <<>>
                      THEN /\ j' = 1
                           /\ pc' = "begin_item"
                      ELSE /\ j' = 0
                           /\ pc' = "remove"
    /\ UNCHANGED <<sessionVars, uploaded_files, i, all_results, branches,
                   temp_pdfs, progress, base_df, itemVars,
                   after_reset, reset_rows>>

\* head of the item loop: description, progress, analysis = None,
\* source = "Non déterminé"
BeginItem ==
    /\ pc = "begin_item"
    /\ description' = Get(item, "description", "N/A")
    /\ progress' = total_progress(i, j, Len(line_items), Len(uploaded_files))
    /\ analysis' = None
    /\ source' = "Non determine"
    /\ structured_info' = None
    /\ best_ademe_match' = None
    /\ compatible' = PyFalse
    /\ trace' = <<>>
    /\ item_base' = Len(all_results)
    /\ judge_reply' = None
    /\ hint_reply' = None
    /\ estimate' = None
    /\ pc' = "hint"
    /\ op' = "begin_item"
    /\ UNCHANGED <<stubVars, demoVars, cache_data>>
    /\ UNCHANGED <<sessionVars, uploaded_files, i, j, extracted_data,
                   all_results, branches, temp_pdfs, base_df,
                   after_reset, reset_rows, cause>>

\* step 1: get_structured_info_from_llm(description), through its memo
ExtractHint(reply) ==
    /\ pc = "hint"
    /\ LET hit == Cached(cache_data.hint, description)
       IN  /\ structured_info' =
                  IF hit THEN cache_data.hint[description]
                  ELSE get_structured_info_from_llm(description, reply)
           /\ hint_reply' = IF hit THEN None ELSE Some(reply)
           /\ cache_data' =
                  IF hit THEN cache_data
                  ELSE [cache_data EXCEPT !.hint =
                           Put(@, description, structured_info')]
    /\ trace' = Append(trace, "hint")
    /\ pc' = IF hint_gate(structured_info') THEN "match" ELSE step_after(analysis)
    /\ op' = "hint"
    /\ UNCHANGED <<stubVars, demoVars>>
    /\ UNCHANGED <<sessionVars, runVars, description, best_ademe_match,
                   compatible, analysis, source, item_base, judge_reply,
                   estimate, after_reset, reset_rows, cause>>

\* step 2: search_ademe_base_carbone(keywords, ademe_df)
MatchReference ==
    /\ pc = "match"
    /\ best_ademe_match' =
           search_ademe_base_carbone(keywords_of(structured_info), ademe_df)
    /\ trace' = Append(trace, "match")
    /\ hint_reply' = None
    /\ pc' = IF best_ademe_match' # None THEN "judge" ELSE step_after(analysis)
    /\ op' = "match"
    /\ UNCHANGED <<stubVars, demoVars, cache_data>>
    /\ UNCHANGED <<sessionVars, runVars, description, structured_info,
                   compatible, analysis, source, item_base, judge_reply,
                   estimate, after_reset, reset_rows, cause>>

\* step 3: are_units_compatible(description, invoice_unit, ademe_unit),
\* through its memo
JudgeUnits(reply) ==
    /\ pc = "judge"
    /\ LET invoice_unit == invoice_unit_of(structured_info)
           ademe_unit   == best_ademe_match[1].unit
           key          == <<description, invoice_unit, ademe_unit>>
           hit          == Cached(cache_data.judge, key)
       IN  /\ compatible' =
                  IF hit THEN cache_data.judge[key]
                  ELSE are_units_compatible(description, invoice_unit, ademe_unit,
                                            reply)
           /\ judge_reply' =
                  IF hit \/ same_unit(invoice_unit, ademe_unit) THEN None
                  ELSE Some(reply)
           /\ cache_data' =
                  IF hit THEN cache_data
                  ELSE [cache_data EXCEPT !.judge = Put(@, key, compatible')]
    /\ analysis' = analysis_after_judge(compatible', best_ademe_match[1], analysis)
    /\ source' = source_after_judge(compatible', source)
    /\ hint_reply' = None
    /\ trace' = Append(trace, "judge")
    /\ pc' = step_after(analysis')
    /\ op' = "judge"
    /\ UNCHANGED <<stubVars, demoVars>>
    /\ UNCHANGED <<sessionVars, runVars, description, structured_info,
                   best_ademe_match, item_base, estimate,
                   after_reset, reset_rows, cause>>

\* step 4: get_carbon_analysis_from_llm(description, float(quantity)),
\* through its memo
EstimateFallback(reply) ==
    /\ pc = "fallback"
    /\ source' = source_at_fallback(source)
    /\ op' = "fallback"
    /\ UNCHANGED <<stubVars, demoVars>>
    /\ IF FloatRaises(raw_quantity(item))
       THEN /\ Crash("float")
            /\ UNCHANGED <<analysis, estimate, trace, cache_data>>
       ELSE LET key == <<description, Float(raw_quantity(item))>>
                hit == Cached(cache_data.estimate, key)
            IN
            /\ analysis' =
                   IF hit THEN cache_data.estimate[key]
                   ELSE get_carbon_analysis_from_llm(
                            description, Float(raw_quantity(item)), reply)
            /\ cache_data' =
                   IF hit THEN cache_data
                   ELSE [cache_data EXCEPT !.estimate = Put(@, key, analysis')]
            /\ estimate' = analysis'
            /\ trace' = Append(trace, "fallback")
            /\ pc' = "row"
            /\ cause' = cause
    /\ judge_reply' = None
    /\ hint_reply' = None
    /\ UNCHANGED <<sessionVars, runVars, description, structured_info,
                   best_ademe_match, compatible, item_base,
                   after_reset, reset_rows>>

made_by ==
    IF "fallback" \in SeqToSet(trace) THEN "fallback"
    ELSE IF "judge" \in SeqToSet(trace) /\ Truthy(compatible) THEN "reference"
    ELSE "none"

\* `if analysis:` build the row and append it to all_results
AppendRow ==
    /\ pc = "row"
    /\ op' = "row"
    /\ UNCHANGED <<stubVars, demoVars, cache_data>>
    /\ IF analysis # None /\ analysis[1].has # {}
       THEN IF FloatRaises(raw_quantity(item))
            THEN /\ Crash("float")
                 /\ UNCHANGED <<all_results, branches, trace>>
            ELSE /\ all_results' = Append(all_results,
                        result_row(Get(extracted_data[1], "invoice_date", "None"),
                                   description, item, analysis[1], source))
                 /\ branches' = Append(branches, made_by)
                 /\ trace' = Append(trace, "row")
                 /\ pc' = "end_item"
                 /\ cause' = cause
       ELSE /\ trace' = Append(trace, "row")
            /\ pc' = "end_item"
            /\ UNCHANGED <<all_results, branches, cause>>
    /\ UNCHANGED <<sessionVars, uploaded_files, i, j, extracted_data,
                   temp_pdfs, progress, base_df, description, structured_info,
                   best_ademe_match, compatible, analysis, source, item_base,
                   estimate, after_reset, reset_rows>>
    /\ judge_reply' = None
    /\ hint_reply' = None

\* the item loop goes on to the next item, or ends
EndItem ==
    /\ pc = "end_item"
    /\ IF j < Len(line_items)
       THEN /\ j' = j + 1
            /\ pc' = "begin_item"
       ELSE /\ j' = 0
            /\ pc' = "remove"
    /\ ClearItem
    /\ op' = "end_item"
    /\ UNCHANGED <<stubVars, demoVars, cache_data>>
    /\ UNCHANGED <<sessionVars, uploaded_files, i, extracted_data,
                   all_results, branches, temp_pdfs, progress, base_df,
                   after_reset, reset_rows, cause>>

\* os.remove(pdf_path), progress, next file
RemoveTemp ==
    /\ pc = "remove"
    /\ temp_pdfs' = temp_pdfs \ {uploaded_files[i].name}
    /\ progress' = <<i, Len(uploaded_files)>>
    /\ extracted_data' = None
    /\ IF i < Len(uploaded_files)
       THEN /\ i' = i + 1
            /\ pc' = "stage"
       ELSE /\ i' = 0
            /\ pc' = "merge"
    /\ op' = "remove"
    /\ UNCHANGED <<stubVars, demoVars, cache_data>>
    /\ UNCHANGED <<sessionVars, uploaded_files, j, all_results, branches,
                   base_df, itemVars, after_reset, reset_rows, cause>>

\* `if all_results:` concat, drop_duplicates, reset_index
MergeResults ==
    /\ pc = "merge"
    /\ LET idx == merge_index(results_df, all_results)
       IN  /\ results_df' = pick(results_df \o all_results, idx)
           /\ results_branches' = pick(results_branches \o branches, idx)
    /\ pc' = "idle"
    /\ op' = "merge"
    /\ UNCHANGED <<stubVars, demoVars, cache_data>>
    /\ UNCHANGED <<api_key, configured, ademe_df, ademe_file, runs, runVars,
                   itemVars,
                   after_reset, reset_rows, cause>>

\* the reset button, drawn when results_df is not empty
Reset ==
    /\ pc = "idle"
    /\ results_df # EmptyFrame
    /\ results_df' = cleared(results_df)
    /\ results_branches' = <<>>
    /\ after_reset' = "pending"
    /\ reset_rows' = Len(results_df)
    /\ op' = "reset"
    /\ UNCHANGED <<stubVars, demoVars, cache_data>>
    /\ UNCHANGED <<api_key, configured, ademe_df, ademe_file, runs, runVars,
                   itemVars, pc,
                   cause>>

\* after an uncaught exception the page is drawn again on the next
\* interaction; session_state is what it was
Rerun ==
    /\ pc = "crashed"
    /\ pc' = "idle"
    /\ ClearItem
    /\ i' = 0
    /\ j' = 0
    /\ extracted_data' = None
    /\ op' = "rerun"
    /\ UNCHANGED <<stubVars, demoVars, cache_data>>
    /\ UNCHANGED <<sessionVars, uploaded_files, all_results, branches,
                   temp_pdfs, progress, base_df,
                   after_reset, reset_rows, cause>>

(* ======================= src/streamlit_carbon_app.py ================== *)

(* --------------------------------- texts ------------------------------ *)

Whitespace == {" ", "\n", "\t"}

\* `not text.strip()`
IsBlank(s) == \A k \in 1..Len(s) : s[k] \in Whitespace

\* `sub in s`
Contains(sub, s) ==
    \E k \in 0..(Len(s) - Len(sub)) : SubSeq(s, k + 1, k + Len(sub)) = sub

\* uploaded_file.name.lower().split('.')[-1]
file_extension(name) ==
    LET low  == Lower(name)
        dots == { k \in 1..Len(low) : low[k] = "." }
        last == IF dots = {} THEN 0 ELSE CHOOSE k \in dots : \A m \in dots : m <= k
    IN  SubSeq(low, last + 1, Len(low))

\* the outcome of a call: it raised, or it returned value
Raises == [raised |-> TRUE, value |-> <<>>]

Returns(v) == [raised |-> FALSE, value |-> v]

(* ------------------------- extract_text_from_pdf ---------------------- *)

\* text += page.extract_text() + "\n", over the pages
RECURSIVE page_texts(_)
page_texts(pages) ==
    IF pages = <<>> THEN <<>>
    ELSE Head(pages) \o <<"\n">> \o page_texts(Tail(pages))

extract_text_from_pdf(file) ==
    IF ~file.readable THEN Raises ELSE Returns(page_texts(file.pages))

(* ----------------------------- call_api_invoice ----------------------- *)

D_papier == <<"R","a","m","e"," ","d","e"," ","P","a","p","i","e","r">>

D_diesel == <<"D","i","e","s","e","l">>

D_stand == <<"S","t","a","n","d">>

StubItemKeys == {"description", "quantity", "unit", "unit_price"}

PaperItem ==
    [has |-> StubItemKeys, description |-> D_papier, quantity |-> QtyNum(10),
     unit |-> "rame", unit_price |-> QtyNum(3)]

DieselItem ==
    [has |-> {"description", "quantity"}, description |-> D_diesel,
     quantity |-> QtyNull, unit |-> "", unit_price |-> QtyNum(0)]

StandItem ==
    [has |-> {"description", "quantity", "unit_price"}, description |-> D_stand,
     quantity |-> QtyWord, unit |-> "", unit_price |-> QtyNumeral(40)]

NoItems == [has |-> {}, items |-> <<>>]

Items(l) == [has |-> {"items"}, items |-> l]

InvoiceReplies ==
    { [raises |-> TRUE, obj |-> NoItems],
      [raises |-> FALSE, obj |-> NoItems],
      [raises |-> FALSE, obj |-> Items(<<>>)],
      [raises |-> FALSE, obj |-> Items(<<PaperItem>>)],
      [raises |-> FALSE, obj |-> Items(<<DieselItem>>)],
      [raises |-> FALSE, obj |-> Items(<<StandItem>>)] }

\* requests.post, raise_for_status, resp.json(), data.get("items"); every
\* exception leaves as RuntimeError
call_api_invoice(text, reply) ==
    IF reply.raises THEN Raises
    ELSE IF "items" \notin reply.obj.has THEN Raises
    ELSE Returns(reply.obj.items)

(* ----------------------------- parse_csv_invoice ---------------------- *)

\* the words a header is tested against, per field
Vocabulary ==
    [description |-> {<<"d","e","s","c">>, <<"p","r","o","d","u","c","t">>},
     quantity    |-> {<<"q","t","y">>, <<"q","u","a","n","t","i","t","y">>},
     unit_price  |-> {<<"u","n","i","t","_","p","r","i","c","e">>,
                      <<"p","r","i","c","e">>},
     unit        |-> {<<"u","n","i","t">>}]

\* the columns whose lowercased header holds a word of the field
matching(field, columns) ==
    { k \in 1..Len(columns) :
          \E w \in Vocabulary[field] : Contains(w, Lower(columns[k])) }

\* col_map.get(field): the loop overwrites, so the last matching column
col_map(field, columns) ==
    LET found == matching(field, columns)
    IN  IF found = {} THEN 0
        ELSE CHOOSE k \in found : \A m \in found : m <= k

\* col_map.get(field, default), 0 when reading it raises: df.columns[1] on
\* a table of one column, row[''] when no header holds 'unit'
column_of(field, columns) ==
    LET mapped == col_map(field, columns)
    IN  IF mapped # 0 THEN mapped
        ELSE CASE field = "description" -> IF Len(columns) >= 1 THEN 1 ELSE 0
               [] field = "quantity"    -> IF Len(columns) >= 2 THEN 2 ELSE 0
               [] field = "unit_price"  -> Len(columns)
               [] OTHER                 -> 0

\* the column read for each field
columns_read(columns) == [fld \in StubItemKeys |-> column_of(fld, columns)]

\* a cell: what str() gives, and what float() gives if it gives anything
Cell(text, num) == [text |-> text, num |-> num]

\* the item of one row, read through the columns col
csv_item(row, col) ==
    [has |-> StubItemKeys,
     description |-> row[col.description].text,
     quantity    |-> QtyNum(row[col.quantity].num[1]),
     unit        |-> row[col.unit].text,
     unit_price  |-> QtyNum(row[col.unit_price].num[1])]

csv_row_raises(row, col) ==
    \/ \E fld \in StubItemKeys : col[fld] = 0
    \/ row[col.quantity].num = None
    \/ row[col.unit_price].num = None

parse_csv_invoice(file) ==
    LET col == columns_read(file.columns)
    IN  IF ~file.readable THEN Raises
        ELSE IF file.rows = <<>> THEN Returns(<<>>)
        ELSE IF \E k \in 1..Len(file.rows) : csv_row_raises(file.rows[k], col)
        THEN Raises
        ELSE Returns([k \in 1..Len(file.rows) |-> csv_item(file.rows[k], col)])

(* ------------------------------ compute_carbon ------------------------ *)

\* factors are in hundredths of kgCO2e per unit
fallback_factor_estimate(product_description) ==
    LET desc == Lower(product_description)
        any(ks) == \E k \in ks : Contains(k, desc)
    IN  IF any({ <<"e","l","e","c","t","r","i","c">> }) THEN 5
        ELSE IF any({ <<"p","e","t","r","o","l">>, <<"e","s","s","e","n","c","e">>,
                      <<"d","i","e","s","e","l">> }) THEN 230
        ELSE IF any({ <<"s","t","e","e","l">>, <<"a","c","i","e","r">> }) THEN 180
        ELSE IF any({ <<"p","a","p","e","r">>, <<"p","a","p","i","e","r">> }) THEN 50
        ELSE 10

\* `v or d` on a JSON value: None, 0 and "" are falsy
OrElse(v, d) ==
    IF v.kind = "null" \/ (v.kind = "num" /\ v.num = 0) THEN d ELSE v

NoFactor == [has |-> {}, factor |-> QtyNull, unit |-> "", note |-> ""]

FactorAnswer(v) ==
    [has |-> {"factor", "unit", "note"}, factor |-> v, unit |-> "kgCO2e/kg",
     note |-> "base"]

FactorReplies ==
    { [raises |-> TRUE, obj |-> NoFactor],
      [raises |-> FALSE, obj |-> NoFactor],
      [raises |-> FALSE, obj |-> FactorAnswer(QtyNum(120))],
      [raises |-> FALSE, obj |-> FactorAnswer(QtyNull)] }

\* requests.post, raise_for_status, resp.json()
call_api_factor(product_description, reply) ==
    IF reply.raises THEN Raises ELSE Returns(reply.obj)

\* the try block of compute_carbon raises: the call did, or float() did
factor_raises(desc, reply) ==
    \/ call_api_factor(desc, reply).raised
    \/ FloatRaises(Get(call_api_factor(desc, reply).value, "factor", QtyNum(0)))

\* factor, factor_unit, note of one item
factor_of(desc, use_api_for_factors, reply) ==
    IF ~use_api_for_factors
    THEN [factor |-> fallback_factor_estimate(desc),
          factor_unit |-> "kgCO2e/unit", note |-> ""]
    ELSE IF factor_raises(desc, reply)
    THEN [factor |-> fallback_factor_estimate(desc),
          factor_unit |-> "kgCO2e/unit", note |-> "fallback"]
    ELSE LET f_resp == call_api_factor(desc, reply).value
         IN  [factor |-> Float(Get(f_resp, "factor", QtyNum(0))),
              factor_unit |-> Get(f_resp, "unit", "kgCO2e/unit"),
              note |-> Get(f_resp, "note", "")]

stub_quantity(it) == OrElse(Get(it, "quantity", QtyNum(1)), QtyNum(1))

stub_unit_price(it) == OrElse(Get(it, "unit_price", QtyNum(0)), QtyNum(0))

\* the first line of the loop body raises in float()
item_raises(it) ==
    FloatRaises(stub_quantity(it)) \/ FloatRaises(stub_unit_price(it))

\* the row compute_carbon appends for one item
carbon_row(it, use_api_for_factors, reply) ==
    LET desc == Get(it, "description", <<>>)
        qty  == Float(stub_quantity(it))
        fct  == factor_of(desc, use_api_for_factors, reply)
    IN  [description |-> desc,
         quantity    |-> qty,
         unit        |-> Get(it, "unit", ""),
         unit_price  |-> Float(stub_unit_price(it)),
         factor      |-> fct.factor,
         factor_unit |-> fct.factor_unit,
         carbon_kg   |-> qty * fct.factor,
         note        |-> fct.note]

(* --------------------------- the files uploaded ----------------------- *)

StubFile(name, readable, pages, text, columns, fileRows) ==
    [name |-> name, readable |-> readable, pages |-> pages, text |-> text,
     columns |-> columns, rows |-> fileRows]

InvoicePdf ==
    StubFile(<<"f", ".", "P", "D", "F">>, TRUE, <<D_papier>>, <<>>, <<>>, <<>>)

\* a scan: its one page has no text
ScanPdf ==
    StubFile(<<"s", ".", "p", "d", "f">>, TRUE, <<<<" ">>>>, <<>>, <<>>, <<>>)

BrokenPdf ==
    StubFile(<<"b", ".", "p", "d", "f">>, FALSE, <<>>, <<>>, <<>>, <<>>)

NoteTxt ==
    StubFile(<<"n", ".", "t", "x", "t">>, TRUE, <<>>, D_diesel, <<>>, <<>>)

\* product,Qty,unit_price / Rame de Papier,10,3
LinesCsv ==
    StubFile(<<"l", ".", "c", "s", "v">>, TRUE, <<>>, <<>>,
             << <<"p","r","o","d","u","c","t">>, <<"Q","t","y">>,
                <<"u","n","i","t","_","p","r","i","c","e">> >>,
             << <<Cell(D_papier, None), Cell(<<"1","0">>, Some(10)),
                  Cell(<<"3">>, Some(3))>> >>)

\* article,nombre / Stand,2
PlainCsv ==
    StubFile(<<"p", ".", "c", "s", "v">>, TRUE, <<>>, <<>>,
             << <<"a","r","t","i","c","l","e">>, <<"n","o","m","b","r","e">> >>,
             << <<Cell(D_stand, None), Cell(<<"2">>, Some(2))>> >>)

StubFiles == {InvoicePdf, ScanPdf, BrokenPdf, NoteTxt, LinesCsv, PlainCsv}

StubUploads == UNION { [1..n -> StubFiles] : n \in 0..2 }

StubInit ==
    /\ last_results = None
    /\ use_api_factors = TRUE
    /\ stub_files = <<>>
    /\ stub_pc = "idle"
    /\ file_no = 0
    /\ item_no = 0
    /\ all_items = <<>>
    /\ rows = <<>>
    /\ read_files = {}
    /\ stub_base = None
    /\ stub_op = "start"
    /\ stub_cause = ""
    /\ stub_runs = 0

(* ------------------------------- the handler -------------------------- *)

\* a loop body that sends the text of a PDF to the invoice service
\* without looking at it
read_file_unguarded(file, reply) ==
    LET file_ext     == file_extension(file.name)
        invoice_text == extract_text_from_pdf(file)
    IN  IF file_ext = <<"p","d","f">>
        THEN IF invoice_text.raised THEN Raises
             ELSE call_api_invoice(invoice_text.value, reply)
        ELSE IF file_ext = <<"c","s","v">> THEN parse_csv_invoice(file)
        ELSE IF ~file.readable THEN Raises
        ELSE call_api_invoice(file.text, reply)

\* the items one file gives, or the exception reading it raises
read_file(file, reply) ==
    LET file_ext     == file_extension(file.name)
        invoice_text == extract_text_from_pdf(file)
    IN  IF file_ext = <<"p","d","f">>
        THEN IF invoice_text.raised THEN Raises
             ELSE IF IsBlank(invoice_text.value) THEN Returns(<<>>)
             ELSE call_api_invoice(invoice_text.value, reply)
        ELSE IF file_ext = <<"c","s","v">> THEN parse_csv_invoice(file)
        ELSE IF ~file.readable THEN Raises
        ELSE call_api_invoice(file.text, reply)

\* the call that raises when reading file raises
raising_call(file) ==
    LET file_ext == file_extension(file.name)
    IN  IF file_ext = <<"p","d","f">>
        THEN IF ~file.readable THEN "extract_text_from_pdf"
             ELSE "call_api_invoice"
        ELSE IF file_ext = <<"c","s","v">> THEN "parse_csv_invoice"
        ELSE IF ~file.readable THEN "decode"
        ELSE "call_api_invoice"

\* `except Exception as e: st.error(...)`: the handler ends here
StubFail(what) ==
    /\ stub_pc' = "idle"
    /\ stub_op' = "failed"
    /\ stub_cause' = what

\* the checkbox
ToggleFactors ==
    /\ stub_pc = "idle"
    /\ use_api_factors' = ~use_api_factors
    /\ stub_op' = "toggle"
    /\ UNCHANGED <<last_results, stub_files, stub_pc, file_no, item_no,
                   all_items, rows, read_files, stub_base, stub_cause,
                   stub_runs>>
    /\ UNCHANGED <<appVars, demoVars>>

\* the button: `if uploaded_files:` ... `else: st.warning(...)`
StubLaunch(files) ==
    /\ stub_pc = "idle"
    /\ stub_runs < MaxRuns
    /\ stub_runs' = stub_runs + 1
    /\ stub_files' = files
    /\ stub_base' = last_results
    /\ read_files' = {}
    /\ all_items' = <<>>
    /\ rows' = <<>>
    /\ item_no' = 0
    /\ IF files # <<>>
       THEN /\ file_no' = 1
            /\ stub_pc' = "file"
            /\ stub_op' = "launch"
       ELSE /\ file_no' = 0
            /\ stub_pc' = "idle"
            /\ stub_op' = "no_file"
    /\ UNCHANGED <<last_results, use_api_factors, stub_cause>>
    /\ UNCHANGED <<appVars, demoVars>>

\* one turn of `for uploaded_file in uploaded_files:`, and after the last
\* one `if all_items:` ... `else: st.warning(...)`
ReadFile(reply) ==
    /\ stub_pc = "file"
    /\ LET got == read_file(stub_files[file_no], reply)
       IN  IF got.raised
           THEN /\ StubFail(raising_call(stub_files[file_no]))
                /\ UNCHANGED <<all_items, read_files, file_no, item_no>>
           ELSE /\ all_items' = all_items \o got.value
                /\ read_files' = read_files \cup {file_no}
                /\ stub_cause' = stub_cause
                /\ IF file_no < Len(stub_files)
                   THEN /\ file_no' = file_no + 1
                        /\ stub_pc' = "file"
                        /\ stub_op' = "read"
                        /\ item_no' = item_no
                   ELSE /\ file_no' = 0
                        /\ IF all_items' # <<>>
                           THEN /\ stub_pc' = "compute"
                                /\ stub_op' = "read"
                                /\ item_no' = 1
                           ELSE /\ stub_pc' = "idle"
                                /\ stub_op' = "no_item"
                                /\ item_no' = 0
    /\ UNCHANGED <<last_results, use_api_factors, stub_files, rows, stub_base,
                   stub_runs>>
    /\ UNCHANGED <<appVars, demoVars>>

\* one turn of the loop of compute_carbon
ComputeItem(reply) ==
    /\ stub_pc = "compute"
    /\ IF item_raises(all_items[item_no])
       THEN /\ StubFail("float")
            /\ UNCHANGED <<rows, item_no>>
       ELSE /\ rows' = Append(rows, carbon_row(all_items[item_no],
                                               use_api_factors, reply))
            /\ stub_op' = "compute"
            /\ stub_cause' = stub_cause
            /\ IF item_no < Len(all_items)
               THEN /\ item_no' = item_no + 1
                    /\ stub_pc' = "compute"
               ELSE /\ item_no' = 0
                    /\ stub_pc' = "store"
    /\ UNCHANGED <<last_results, use_api_factors, stub_files, file_no,
                   all_items, read_files, stub_base, stub_runs>>
    /\ UNCHANGED <<appVars, demoVars>>

\* st.session_state['last_results'] = df_results
stored(before, df_results) == Some(df_results)

StoreResults ==
    /\ stub_pc = "store"
    /\ last_results' = stored(last_results, rows)
    /\ stub_pc' = "idle"
    /\ stub_op' = "store"
    /\ UNCHANGED <<use_api_factors, stub_files, file_no, item_no, all_items,
                   rows, read_files, stub_base, stub_cause, stub_runs>>
    /\ UNCHANGED <<appVars, demoVars>>

StubNext ==
    \/ ToggleFactors
    \/ \E files \in StubUploads : StubLaunch(files)
    \/ \E reply \in InvoiceReplies : ReadFile(reply)
    \/ \E reply \in FactorReplies : ComputeItem(reply)
    \/ StoreResults

\* one click of the button in a fresh session
BatchNext ==
    \/ ToggleFactors
    \/ \E files \in StubUploads : stub_runs = 0 /\ StubLaunch(files)
    \/ \E reply \in InvoiceReplies : ReadFile(reply)
    \/ \E reply \in FactorReplies : ComputeItem(reply)
    \/ StoreResults

(* ============================== src/test.py =========================== *)

MaxEntries == 3

ManualTag == "Entree Manuelle"

\* rows get_demo_data() can draw; dates are days of 2025, confidences
\* hundredths, carbon_kg whole kilograms
DemoRows ==
    { [invoice_date |-> 10, description |-> "Service Cloud (Mensuel)",
       quantity |-> 3, carbon_kg |-> 310, category |-> "Services Numeriques",
       source |-> EstimateTag, confidence |-> 80],
      [invoice_date |-> 20, description |-> "Billet de train Paris-Lyon A/R",
       quantity |-> 1, carbon_kg |-> 75, category |-> "Deplacements Professionnels",
       source |-> ReferenceTag, confidence |-> 95] }

\* df.sort_values(by='invoice_date')
IsSortedByDate(df) ==
    \A a, b \in 1..Len(df) : a < b => df[a].invoice_date <= df[b].invoice_date

NoTwoEqualRows(df) ==
    \A a, b \in 1..Len(df) : a # b => df[a] # df[b]

\* the frames get_demo_data() gives: drawn rows, sorted by date
get_demo_data ==
    { df \in UNION { [1..n -> DemoRows] : n \in 1..2 } :
          IsSortedByDate(df) /\ NoTwoEqualRows(df) }

DemoInit ==
    /\ demo_df \in get_demo_data
    /\ demo_op = "start"
    /\ entries = 0

\* st.session_state.results_df['category'].unique()
categories_list(df) == { df[k].category : k \in 1..Len(df) }

new_entry(manual_date, manual_desc, manual_qty, manual_cat) ==
    [invoice_date |-> manual_date,
     description  |-> manual_desc,
     quantity     |-> manual_qty,
     carbon_kg    |-> 75 * manual_qty,
     category     |-> manual_cat,
     source       |-> ManualTag,
     confidence   |-> 100]

\* pd.concat([results_df, new_df], ignore_index=True)
concat(df, new_df) == df \o new_df

\* the analysis button of the demonstration: a progress bar and a message
SimulateAnalysis ==
    /\ demo_op' = "analysis"
    /\ UNCHANGED <<demo_df, entries>>
    /\ UNCHANGED <<appVars, stubVars>>

\* the manual entry form: `if manual_desc:` ... `else: st.warning(...)`
ManualEntry(manual_date, manual_desc, manual_qty, manual_cat) ==
    /\ entries < MaxEntries
    /\ entries' = entries + 1
    /\ IF manual_desc # ""
       THEN /\ demo_df' = concat(demo_df,
                   <<new_entry(manual_date, manual_desc, manual_qty, manual_cat)>>)
            /\ demo_op' = "entry"
       ELSE /\ demo_df' = demo_df
            /\ demo_op' = "no_description"
    /\ UNCHANGED <<appVars, stubVars>>

DemoNext ==
    \/ SimulateAnalysis
    \/ \E d \in {20, 30}, t \in {"", "Billet de train"}, q \in {1, 2},
          c \in categories_list(demo_df) : ManualEntry(d, t, q, c)

\* one run over one file in a fresh session, with every answer of every
\* service
AppNext ==
    \/ \E ok \in BOOLEAN : EnterApiKey(ok)
    \/ runs = 0 /\ LaunchAnalysis(<<FileA>>)
    \/ StageFile
    \/ \E answer \in ExtractReplies : ExtractInvoice(answer)
    \/ BeginItem
    \/ \E reply \in HintReplies : ExtractHint(reply)
    \/ MatchReference
    \/ \E reply \in JudgeReplies : JudgeUnits(reply)
    \/ \E reply \in EstimateReplies : EstimateFallback(reply)
    \/ AppendRow
    \/ EndItem
    \/ RemoveTemp
    \/ MergeResults
    \/ Reset
    \/ Rerun

\* up to MaxRuns runs over one or two files in one session, with one
\* answer of each kind
SessionNext ==
    \/ \E ok \in BOOLEAN : EnterApiKey(ok)
    \/ \E files \in Uploads : LaunchAnalysis(files)
    \/ StageFile
    \/ \E u \in BOOLEAN,
          r \in { Raised(NoInvoice), Object(OneItemInvoice), Object(MixedInvoice) } :
           ExtractInvoice([upload |-> u, reply |-> r])
    \/ BeginItem
    \/ \E reply \in { Raised(NoHint), Object(HintTrain) } : ExtractHint(reply)
    \/ MatchReference
    \/ \E reply \in { Object(Verdict(PyTrue)), Object(Verdict(PyFalse)) } :
           JudgeUnits(reply)
    \/ \E reply \in { Raised(NoAnalysis), Object(FullEstimate) } :
           EstimateFallback(reply)
    \/ AppendRow
    \/ EndItem
    \/ RemoveTemp
    \/ MergeResults
    \/ Reset
    \/ Rerun

\* one run over one file of one line item, with the answers that try the
\* search
SearchNext ==
    \/ \E ok \in BOOLEAN : EnterApiKey(ok)
    \/ runs = 0 /\ LaunchAnalysis(<<FileA>>)
    \/ StageFile
    \/ \E u \in BOOLEAN :
           ExtractInvoice([upload |-> u, reply |-> Object(OneItemInvoice)])
    \/ BeginItem
    \/ \E reply \in HintReplies \cup { Object(o) : o \in SearchHintObjects }
                       \cup { Wrapped(HintTrain), Annotated(HintTrain) } :
           ExtractHint(reply)
    \/ MatchReference
    \/ \E reply \in { Object(Verdict(PyTrue)), Object(Verdict(PyFalse)),
                       Wrapped(Verdict(PyTrue)), Annotated(Verdict(PyTrue)) } :
           JudgeUnits(reply)
    \/ \E reply \in { Raised(NoAnalysis), Object(FullEstimate),
                       Object(BoldEstimate) } : EstimateFallback(reply)
    \/ AppendRow
    \/ EndItem
    \/ RemoveTemp
    \/ MergeResults
    \/ Reset
    \/ Rerun

\* invoices whose line items all hold a number as quantity
SoundInvoices ==
    { o \in InvoiceObjects :
          /\ "line_items" \in o.has
          /\ \A k \in 1..Len(o.line_items) :
                 ~FloatRaises(raw_quantity(o.line_items[k])) }

\* the dashboard of app.py, runs over one of two files whose quantities
\* are numbers and whose estimates succeed, next to the demonstration and
\* its manual entry form
LedgerNext ==
    \/ EnterApiKey(TRUE)
    \/ \E file \in {FileA, FileB} : LaunchAnalysis(<<file>>)
    \/ StageFile
    \/ \E o \in SoundInvoices :
           ExtractInvoice([upload |-> TRUE, reply |-> Object(o)])
    \/ BeginItem
    \/ \E reply \in { Raised(NoHint), Object(HintTrain) } : ExtractHint(reply)
    \/ MatchReference
    \/ JudgeUnits(Object(Verdict(PyTrue)))
    \/ EstimateFallback(Object(FullEstimate))
    \/ AppendRow
    \/ EndItem
    \/ RemoveTemp
    \/ MergeResults
    \/ Reset
    \/ \E t \in {"", "Billet de train"} :
           ManualEntry(20, t, 1, demo_df[1].category)

\* runs of app.py over one file that may give no row, next to clicks of
\* streamlit_carbon_app.py on files that may give no item
QuietNext ==
    \/ EnterApiKey(TRUE)
    \/ \E file \in {FileA, FileB} : LaunchAnalysis(<<file>>)
    \/ StageFile
    \/ \E r \in { Raised(NoInvoice), Object(OneItemInvoice),
                   Object(InvoiceOf(<<LicenceItem>>)) } :
           ExtractInvoice([upload |-> TRUE, reply |-> r])
    \/ BeginItem
    \/ ExtractHint(Raised(NoHint))
    \/ \E reply \in { Raised(NoAnalysis), Object(FullEstimate) } :
           EstimateFallback(reply)
    \/ AppendRow
    \/ EndItem
    \/ RemoveTemp
    \/ MergeResults
    \/ \E file \in {LinesCsv, ScanPdf, NoteTxt} : StubLaunch(<<file>>)
    \/ ReadFile([raises |-> FALSE, obj |-> Items(<<>>)])
    \/ ComputeItem([raises |-> FALSE, obj |-> FactorAnswer(QtyNum(120))])
    \/ StoreResults

\* a program that is not the one running stays as it starts
AppOff == AppInit /\ ademe_file = "absent"

DemoOff ==
    /\ demo_df = <<>>
    /\ demo_op = "start"
    /\ entries = 0

Init == AppInit /\ StubInit /\ DemoOff

Spec == Init /\ [][AppNext]_vars

SpecSession == Init /\ [][SessionNext]_vars

SpecSearch == Init /\ [][SearchNext]_vars

InitLedger == AppInit /\ ademe_file = "ok" /\ StubInit /\ DemoInit

SpecLedger == InitLedger /\ [][LedgerNext]_vars

InitQuiet == AppInit /\ ademe_file = "ok" /\ StubInit /\ DemoOff

SpecQuiet == InitQuiet /\ [][QuietNext]_vars

InitStub == AppOff /\ StubInit /\ DemoOff

SpecStub == InitStub /\ [][StubNext]_vars

SpecBatch == InitStub /\ [][BatchNext]_vars

InitDemo == AppOff /\ StubInit /\ DemoInit

SpecDemo == InitDemo /\ [][DemoNext]_vars

(* ------------------------------- the claims --------------------------- *)

Ran(step) == step \in SeqToSet(trace)

\* the rows the current item has put in the batch
ItemRows ==
    IF trace = <<>> THEN {}
    ELSE { all_results[k] : k \in (item_base + 1)..Len(all_results) }

\* the cascade of the current item is over: its row step is done, or an
\* exception left the run in the middle of it
item_over == pc = "end_item" \/ (pc = "crashed" /\ trace # <<>>)

reference_accepted ==
    /\ Ran("judge")
    /\ best_ademe_match # None
    /\ compatible = PyTrue

\* C1: a line item whose reference search returned a row and whose
\* judgment returned compatible ends with exactly one row, tagged as
\* reference and with carbon_kg = quantity * the factor of that row.
C1_AcceptedMatchGivesOneRow ==
    (reference_accepted /\ item_over) =>
        /\ Len(all_results) = item_base + 1
        /\ \A r \in ItemRows :
               /\ r.source = ReferenceTag
               /\ r.carbon_kg = r.quantity * best_ademe_match[1].factor

hint_is_null == Ran("hint") /\ structured_info = None

\* C2: for a line item whose keyword extraction returned None, the
\* reference search is never run (nor the judgment after it), the step
\* after the extraction is the fallback estimator, and no row of the item
\* carries the reference tag.
C2_NullHintSkipsReference ==
    hint_is_null =>
        /\ ~Ran("match")
        /\ ~Ran("judge")
        /\ (op = "hint" => pc = "fallback")
        /\ (Ran("row") => Ran("fallback"))
        /\ \A r \in ItemRows : r.source # ReferenceTag

C2_Witness ==
    /\ hint_is_null
    /\ Ran("fallback")
    /\ ItemRows # {}

judge_refused ==
    /\ Ran("judge")
    /\ best_ademe_match # None
    /\ ~Truthy(compatible)

\* the row line 289 builds from an estimator answer a
EstimatedRow(r, a) ==
    /\ r.source = EstimateTag
    /\ r.carbon_kg = r.quantity * Get(a, "estimated_factor_kgCO2e_per_unit", 0)
    /\ r.category = Get(a, "category", "Non classe")
    /\ r.confidence = Get(a, "confidence_score", 0)
    /\ r.justification = Get(a, "justification", NoText)

\* no field of r is the field the reference row m would have given
NothingFrom(r, m) ==
    /\ r.category # m.type
    /\ r.confidence # 95
    /\ r.justification # reference_analysis(m, m.unit).justification
    /\ (r.quantity # 0 => r.carbon_kg # r.quantity * m.factor)

\* C3: when a reference row was matched and the judgment came back not
\* compatible, the next step is the fallback estimator, and a row of the
\* item, if there is one, carries the estimate tag and the factor,
\* category, confidence and justification of the estimator's answer, none
\* of them a value of the reference row.
C3_RefusedMatchIsDiscarded ==
    judge_refused =>
        /\ (op = "judge" => pc = "fallback" /\ analysis = None)
        /\ (Ran("row") => Ran("fallback"))
        /\ (ItemRows # {} => estimate # None)
        /\ \A r \in ItemRows :
               /\ EstimatedRow(r, estimate[1])
               /\ NothingFrom(r, best_ademe_match[1])

C3_Witness ==
    /\ judge_refused
    /\ Ran("fallback")
    /\ ItemRows # {}

\* C5: every row of the batch and of the stored results carries the
\* reference tag exactly when the validated reference branch made it and
\* the estimate tag exactly when the fallback branch made it; the row an
\* item has just appended holds the factor of that branch.
C5_TagIsTheBranch ==
    /\ Len(branches) = Len(all_results)
    /\ Len(results_branches) = Len(results_df)
    /\ \A k \in 1..Len(all_results) :
           /\ all_results[k].source = ReferenceTag <=> branches[k] = "reference"
           /\ all_results[k].source = EstimateTag <=> branches[k] = "fallback"
           /\ branches[k] \in {"reference", "fallback"}
    /\ \A k \in 1..Len(results_df) :
           /\ results_df[k].source = ReferenceTag <=> results_branches[k] = "reference"
           /\ results_df[k].source = EstimateTag <=> results_branches[k] = "fallback"
           /\ results_branches[k] \in {"reference", "fallback"}
    /\ \A r \in ItemRows :
           /\ r.source = ReferenceTag =>
                  /\ ~Ran("fallback")
                  /\ Ran("judge")
                  /\ Truthy(compatible)
                  /\ r.carbon_kg = r.quantity * best_ademe_match[1].factor
           /\ r.source = EstimateTag =>
                  /\ Ran("fallback")
                  /\ estimate # None
                  /\ r.carbon_kg = r.quantity *
                         Get(estimate[1], "estimated_factor_kgCO2e_per_unit", 0)

C5_Witness ==
    /\ Len(results_df) >= 2
    /\ \E k \in 1..Len(results_df) : results_df[k].source = ReferenceTag
    /\ \E k \in 1..Len(results_df) : results_df[k].source = EstimateTag

estimator_failed ==
    /\ Ran("fallback")
    /\ \/ estimate = None
       \/ "estimated_factor_kgCO2e_per_unit" \notin estimate[1].has

\* C4: a line item whose fallback estimation failed (the call raised, the
\* answer was no JSON, or the JSON has no factor) contributes no row.
C4_FailedEstimateGivesNoRow ==
    estimator_failed => ItemRows = {}

explicit_true(reply) ==
    /\ ~reply.raises
    /\ re_search(reply.text) = Some(ObjectText)
    /\ "compatible" \in reply.obj.has
    /\ reply.obj.compatible = PyTrue

\* C10: right after the judgment step, a judgment whose call raised, whose
\* answer has no JSON object or one that does not parse, or whose JSON does
\* not hold the boolean true under "compatible" is falsy, and the
\* reference row is taken only on equal units or on an explicit true.
C10_JudgeFailsClosed ==
    op = "judge" =>
        /\ (judge_reply # None /\ ~explicit_true(judge_reply[1]))
               => (~Truthy(compatible) /\ analysis = None)
        /\ analysis # None =>
               \/ judge_reply = None
               \/ explicit_true(judge_reply[1])

\* C9: the reset leaves the stored results empty whatever they held, and
\* the run launched after it starts from the empty collection: what it
\* stores is its own batch, duplicates dropped.
C9_ResetEmpties ==
    /\ op = "reset" => results_df = EmptyFrame /\ results_branches = <<>>
    /\ after_reset = "pending" => results_df = EmptyFrame
    /\ after_reset = "run" =>
           /\ base_df = EmptyFrame
           /\ pc # "idle" => results_df = EmptyFrame
           /\ op = "merge" => results_df = drop_duplicates(all_results)

C9_Witness ==
    /\ after_reset = "run"
    /\ reset_rows >= 2
    /\ op = "merge"
    /\ results_df # EmptyFrame

\* str.lower(), then every whitespace character taken out
Unspaced(s) == LET low == Lower(s) IN SelectSeq(low, LAMBDA c : c \notin Whitespace)

\* the units the judgment step compared are equal once lowercased and
\* stripped of whitespace
equal_units ==
    /\ op = "judge"
    /\ Unspaced(invoice_unit_of(structured_info)) = Unspaced(best_ademe_match[1].unit)

\* C11: when the unit of the invoice and the unit of the reference row are
\* equal after lowercasing and whitespace removal, the judgment returns
\* True and calls no external service.
C11_EqualUnitsSkipTheJudge ==
    equal_units => (compatible = PyTrue /\ judge_reply = None)

\* the units the judgment step compared are equal once lowercased and
\* stripped of the space character
equal_but_for_spaces ==
    /\ op = "judge"
    /\ RemoveSpaces(Lower(invoice_unit_of(structured_info)))
           = RemoveSpaces(Lower(best_ademe_match[1].unit))

\* C11 (amended): when the unit of the invoice and the unit of the
\* reference row are equal after lowercasing and removal of the space
\* character, the judgment returns True and calls no external service,
\* whatever the description.
C11_EqualUnitsModuloSpaces ==
    equal_but_for_spaces => (compatible = PyTrue /\ judge_reply = None)

C11_Witness ==
    /\ equal_but_for_spaces
    /\ invoice_unit_of(structured_info) # best_ademe_match[1].unit
    /\ compatible = PyTrue
    /\ judge_reply = None
    /\ analysis # None

\* the reference search has just run on a table and a non-empty list of
\* keywords
searched ==
    /\ op = "match"
    /\ ademe_df # None
    /\ keywords_of(structured_info) # None
    /\ keywords_of(structured_info)[1] # <<>>

query == keywords_of(structured_info)[1]

name_words(row) == LET low == Lower(row.name) IN Words(low)

\* the largest value of f over the rows of the table
best_of(f(_)) ==
    LET df == ademe_df[1]
    IN  CHOOSE m \in 0..8 :
            /\ \A k \in 1..Len(df) : f(df[k]) <= m
            /\ m = 0 \/ \E k \in 1..Len(df) : f(df[k]) = m

\* the words of the lowercased keywords
query_words == UNION { Words(Lower(query[k])) : k \in 1..Len(query) }

shared_words(row) == Cardinality(query_words \cap name_words(row))

\* C12: the search returns a row exactly when the best score, counted as
\* the words the tokenized lowercased keywords share with the tokenized
\* lowercased name, reaches max(1, number of keywords // 2), and the row
\* returned has that score.
C12_AcceptAtHalfTheWords ==
    searched =>
        /\ best_ademe_match # None
               <=> best_of(shared_words) >= Max(1, Len(query) \div 2)
        /\ best_ademe_match # None
               => shared_words(best_ademe_match[1]) = best_of(shared_words)

\* the lowercased keywords, each taken whole
query_terms == { Lower(query[k]) : k \in 1..Len(query) }

shared_terms(row) == Cardinality(query_terms \cap name_words(row))

\* C12 (amended): the search returns a row exactly when the best score,
\* counted as the distinct lowercased keywords (each taken whole) found
\* among the words of the lowercased name, reaches max(1, number of
\* distinct lowercased keywords // 2), and the row returned has that
\* score; without a table or without keywords it returns no row.
C12_AcceptAtHalfTheTerms ==
    /\ searched =>
           /\ best_ademe_match # None
                  <=> best_of(shared_terms) >= Max(1, Cardinality(query_terms) \div 2)
           /\ best_ademe_match # None
                  => shared_terms(best_ademe_match[1]) = best_of(shared_terms)
    /\ (op = "match" /\ ~searched) => best_ademe_match = None

\* four keywords, two of them in the name: accepted at the threshold
C12_Witness ==
    /\ searched
    /\ Cardinality(query_terms) = 4
    /\ best_of(shared_terms) = 2
    /\ best_ademe_match # None

\* C13: the row the search returns is the first row, in the order of the
\* table, whose score is the highest of the whole table (the score being
\* the number of lowercased keywords among the words of the name); the
\* row is thus a function of the table and the keywords alone.
C13_FirstOfTheBest ==
    (searched /\ best_ademe_match # None) =>
        \E k \in 1..Len(ademe_df[1]) :
            /\ best_ademe_match[1] = ademe_df[1][k]
            /\ shared_terms(ademe_df[1][k]) = best_of(shared_terms)
            /\ \A m \in 1..(k - 1) :
                   shared_terms(ademe_df[1][m]) < best_of(shared_terms)

\* two rows tie for the best score and the first is returned
C13_Witness ==
    /\ searched
    /\ best_ademe_match = Some(ademe_df[1][1])
    /\ shared_terms(ademe_df[1][2]) = best_of(shared_terms)
    /\ shared_terms(ademe_df[1][3]) < best_of(shared_terms)

\* the reference file was absent or lacked a required column at the load
no_reference_file == ademe_file \in {"absent", "missing_column"}

\* C14: when the reference file is absent or lacks a required column, the
\* load gives no table and the session goes on; in that session the search
\* never returns a row, the judgment is never called, every item that
\* leaves the keyword and search steps goes to the fallback estimator, no
\* item reaches its row step but through the estimator, and no row of the
\* batch or of the stored results carries the reference tag.
C14_FallbackOnlyWithoutTable ==
    no_reference_file =>
        /\ ademe_df = None
        /\ pc # "judge"
        /\ ~Ran("judge")
        /\ judge_reply = None
        /\ best_ademe_match = None
        /\ (op \in {"hint", "match"} => pc \in {"match", "fallback"})
        /\ (Ran("row") => Ran("fallback"))
        /\ (pc = "crashed" => cause \in {"upload_file", "float"})
        /\ \A k \in 1..Len(all_results) : all_results[k].source = EstimateTag
        /\ \A k \in 1..Len(results_df) : results_df[k].source = EstimateTag

\* the file lacks a column; the second item of an invoice had keywords,
\* its search gave nothing and the estimator made its row
C14_Witness ==
    /\ ademe_file = "missing_column"
    /\ Ran("match")
    /\ Ran("fallback")
    /\ ItemRows # {}
    /\ Len(all_results) = 2

\* the script is between the write of a staged file and its removal
in_document ==
    pc \in {"extract", "begin_item", "hint", "match", "judge", "fallback",
            "row", "end_item", "remove"}

\* C16: the only staged file on disk is that of the document being
\* processed; once its processing has ended, by its last step or by an
\* error, and once the run is over, ./temp_pdfs holds no staged file.
C16_StagedFileIsRemoved ==
    temp_pdfs \subseteq (IF in_document THEN {uploaded_files[i].name} ELSE {})

\* the fraction a is at most the fraction b
AtMost(a, b) == a[1] * b[2] <= b[1] * a[2]

\* C17: every fraction given to the progress bar lies in [0, 1]; within a
\* run each fraction is at least the one given before it; and the
\* fraction given after the last document is 1.
C17_ProgressNeverGoesBack ==
    /\ [](/\ progress[2] > 0
          /\ AtMost(<<0, 1>>, progress)
          /\ AtMost(progress, <<1, 1>>)
          /\ (op = "remove" /\ pc = "merge") => progress[1] = progress[2])
    /\ [][op' # "launch" => AtMost(progress, progress')]_vars

\* two documents with line items were processed to the end
C17_Witness ==
    /\ pc = "merge"
    /\ Len(uploaded_files) = 2
    /\ progress = <<2, 2>>
    /\ Len(all_results) >= 2

\* a key was given and genai.configure accepted it
usable_credential == api_key /\ configured

\* C18: while no usable API credential is configured no run has started:
\* the script is at rest, no file is staged, no run was launched.
C18_NoRunWithoutCredential ==
    ~usable_credential => (runs = 0 /\ pc = "idle" /\ temp_pdfs = {})

\* the quantity of a line item is absent, null or no number
bad_quantity(it) ==
    "quantity" \notin it.has \/ it.quantity.kind \in {"null", "word"}

\* C19: a line item whose quantity is absent or invalid never makes the
\* run fail, and the row it gives has quantity 1 and carbon_kg = 1 * factor.
C19_BadQuantityCountsAsOne ==
    /\ pc = "crashed" => cause # "float"
    /\ \A r \in ItemRows :
           bad_quantity(item) =>
               /\ r.quantity = 1
               /\ r.carbon_kg =
                      Get(analysis[1], "estimated_factor_kgCO2e_per_unit", 0)

\* C22: every row of the batch and of the stored results has a confidence
\* between 0 and 1 (in hundredths, between 0 and 100).
C22_ConfidenceInUnitRange ==
    /\ \A k \in 1..Len(all_results) :
           all_results[k].confidence \in 0..100
    /\ \A k \in 1..Len(results_df) :
           results_df[k].confidence \in 0..100

\* the place of each step in the cascade
step_rank == [hint |-> 1, match |-> 2, judge |-> 3, fallback |-> 4, row |-> 5]

\* the steps run so far came in the order of the cascade, each once, the
\* search only after the keywords and the judgment only after the search
cascade_in_order ==
    /\ \A a, b \in 1..Len(trace) :
           a < b => step_rank[trace[a]] < step_rank[trace[b]]
    /\ trace # <<>> => trace[1] = "hint"
    /\ Ran("judge") => Ran("match")

\* the judgment accepted the reference row
validated == Ran("judge") /\ Truthy(compatible)

\* the estimator was called for the item exactly when the item got no
\* validated reference result
fallback_iff_unvalidated ==
    /\ Ran("fallback") => ~validated
    /\ item_over => (Ran("fallback") <=> ~validated)

\* the item has put at most one row in the batch, and none without an
\* analysis result
at_most_one_row ==
    trace # <<>> =>
        /\ Len(all_results) \in {item_base, item_base + 1}
        /\ Len(all_results) = item_base + 1 => analysis # None

\* C23: for each line item the steps run in the order keywords, search,
\* judgment, then reference result or estimator, each at most once; the
\* estimator is called if and only if no validated reference result was
\* obtained; the item ends with one analysis result or none and gives at
\* most one row.
C23_CascadeRunsOnceInOrder ==
    /\ cascade_in_order
    /\ fallback_iff_unvalidated
    /\ at_most_one_row

\* the number of "{" less the number of "}" among text[a..k]
depth(text, a, k) ==
    Cardinality({ m \in a..k : text[m] = "{" })
        - Cardinality({ m \in a..k : text[m] = "}" })

\* the first balanced {...} span of the text: from the first "{" to the
\* "}" that closes it; None when there is no "{" or it is never closed
balanced_span(text) ==
    LET opens == positions(text, {"{"})
        ends  == IF opens = {} THEN {}
                 ELSE { k \in Least(opens)..Len(text) :
                            depth(text, Least(opens), k) = 0 }
    IN  IF ends = {} THEN None
        ELSE Some(SubSeq(text, Least(opens), Least(ends)))

\* what decoding the first balanced span gives: the object it parses to,
\* None on a failed call, a text without a span, a span that is no JSON
first_object(reply) ==
    IF reply.raises \/ balanced_span(reply.text) = None THEN None
    ELSE IF json_raises(balanced_span(reply.text)[1]) THEN None
    ELSE Some(json_loads(balanced_span(reply.text)[1], reply.obj))

\* C24: the keyword step and the judgment decode the first balanced {...}
\* span of the answer, whatever prose stands before and after it (prose
\* with braces after the object included); a failed call, a text without
\* a span and a span that is no JSON give None (False for the judgment),
\* and neither step raises.
C24_FirstBalancedSpanIsDecoded ==
    /\ (op = "hint" /\ hint_reply # None) =>
           structured_info = first_object(hint_reply[1])
    /\ (op = "judge" /\ judge_reply # None) =>
           compatible =
               IF first_object(judge_reply[1]) = None THEN PyFalse
               ELSE Get(first_object(judge_reply[1])[1], "compatible", PyFalse)
    /\ pc = "crashed" => cause \in {"upload_file", "float"}

\* C25: what the extraction step gives for a document was extracted from
\* the content of that document, never from that of another document
\* staged under the same name.
C25_ExtractedFromOwnContent ==
    (op = "extract" /\ pc # "crashed") =>
        cache_data.pdf[uploaded_files[i].name].content = uploaded_files[i].content

\* a click of streamlit_carbon_app.py ended without an item
no_item_read ==
    /\ stub_pc = "idle"
    /\ stub_op \in {"no_item", "store"}
    /\ all_items = <<>>

\* C26: a run whose batch is empty, because no document gave a line item
\* or because no line item got an analysis result, leaves the stored
\* results as they were when it was launched: the same rows in the same
\* order; likewise a click of the two-API variant that read no item leaves
\* last_results as it was.
C26_EmptyBatchChangesNothing ==
    /\ (op = "merge" /\ all_results = <<>>) =>
           (results_df = base_df /\ Len(results_branches) = Len(results_df))
    /\ no_item_read => last_results = stub_base

\* a second run, over a document whose one line item got no analysis
\* result, ended with rows stored before it; a second click read a scan
\* without text with rows stored before it
C26_Witness ==
    /\ op = "merge"
    /\ all_results = <<>>
    /\ base_df # EmptyFrame
    /\ results_df = base_df
    /\ Cached(cache_data.estimate, <<"Licence logiciel", 1>>)
    /\ no_item_read
    /\ stub_base # None
    /\ last_results = stub_base

\* the frame b begins with the rows of the frame a, in their order
IsPrefix(a, b) == Len(a) <= Len(b) /\ SubSeq(b, 1, Len(a)) = a

\* C21: no step but the reset changes or moves a row already accumulated:
\* the merge of a run and the manual entry leave the rows held before as
\* they were, in their order, and put what they add after them; the
\* manual entry adds one row, tagged as a manual entry.
C21_RowsAreNeverMutated ==
    [][/\ op' = "reset" \/ IsPrefix(results_df, results_df')
       /\ IsPrefix(demo_df, demo_df')
       /\ demo_df' # demo_df =>
              /\ Len(demo_df') = Len(demo_df) + 1
              /\ demo_df'[Len(demo_df')].source = ManualTag]_vars

\* a run of two rows was merged into stored rows: one of its rows was
\* already stored and the other came after them; the demonstration holds
\* a manual row after its first rows
C21_Witness ==
    /\ op = "merge"
    /\ base_df # EmptyFrame
    /\ Len(all_results) = 2
    /\ Len(results_df) = Len(base_df) + 1
    /\ IsPrefix(base_df, results_df)
    /\ demo_op = "entry"
    /\ demo_df[Len(demo_df)].source = ManualTag
    /\ demo_df[1].source # ManualTag

\* the rows of an Optional frame
RowsOf(frame) == IF frame = None THEN {} ELSE SeqToSet(frame[1])

\* C6: when the invoice service fails for one file of a batch, every other
\* file of the batch is still read, and the items read have their rows in
\* the stored results.
C6_FailedCallIsIsolated ==
    (stub_op = "failed" /\ stub_cause = "call_api_invoice") =>
        /\ read_files = (1..Len(stub_files)) \ {file_no}
        /\ \A k \in 1..Len(all_items) :
               \E r \in RowsOf(last_results) :
                   r.description = Get(all_items[k], "description", <<>>)

\* C7: after a run that stored a batch, every row stored before the run
\* is still stored.
C7_PriorRowsSurvive ==
    stub_op = "store" => RowsOf(stub_base) \subseteq RowsOf(last_results)

\* the loop is about to read a PDF whose pages give only whitespace
blank_pdf_next ==
    /\ stub_pc = "file"
    /\ file_extension(stub_files[file_no].name) = <<"p","d","f">>
    /\ stub_files[file_no].readable
    /\ IsBlank(page_texts(stub_files[file_no].pages))

\* C15: reading a PDF whose extracted text is empty or whitespace raises
\* nothing and adds no item (hence no row: compute_carbon makes one row
\* per item), and the loop goes on to the next file of the batch, or ends
\* normally when the PDF was the last one.
C15_BlankPdfIsSkipped ==
    [][blank_pdf_next =>
          /\ stub_op' # "failed"
          /\ stub_cause' = stub_cause
          /\ all_items' = all_items
          /\ read_files' = read_files \cup {file_no}
          /\ IF file_no < Len(stub_files)
             THEN stub_pc' = "file" /\ file_no' = file_no + 1
             ELSE stub_pc' = (IF all_items = <<>> THEN "idle" ELSE "compute")]_vars

\* a batch of a blank PDF and a CSV of one line was read to its end and
\* stored the one row of the CSV
C15_Witness ==
    /\ stub_op = "store"
    /\ Len(stub_files) = 2
    /\ IsBlank(page_texts(stub_files[1].pages))
    /\ file_extension(stub_files[1].name) = <<"p","d","f">>
    /\ stub_files[1].readable
    /\ read_files = {1, 2}
    /\ last_results = Some(rows)
    /\ Len(rows) = 1

\* the column a field is read from: one whose header matches the words
\* of the field, else the first for the description, the second for the
\* quantity and the last for the unit price
claimed_column(field, columns) ==
    IF matching(field, columns) # {}
    THEN CHOOSE k \in matching(field, columns) :
             \A m \in matching(field, columns) : m <= k
    ELSE CASE field = "description" -> 1
           [] field = "quantity"    -> 2
           [] OTHER                 -> Len(columns)

\* the loop is about to read a CSV file of at least two columns whose
\* quantity and unit price cells are numbers
csv_next ==
    /\ stub_pc = "file"
    /\ file_extension(stub_files[file_no].name) = <<"c","s","v">>
    /\ stub_files[file_no].readable
    /\ Len(stub_files[file_no].columns) >= 2
    /\ \A k \in 1..Len(stub_files[file_no].rows) :
           \A fld \in {"quantity", "unit_price"} :
               stub_files[file_no].rows[k][
                   claimed_column(fld, stub_files[file_no].columns)].num # None

\* C20: reading such a CSV file does not fail and adds one item per row,
\* its description and quantity read from the columns whose headers match
\* those fields, or from the first and second columns when none does.
C20_CsvRowsBecomeItems ==
    [][csv_next =>
          LET file == stub_files[file_no]
              n    == Len(all_items)
          IN  /\ stub_op' # "failed"
              /\ Len(all_items') = n + Len(file.rows)
              /\ \A k \in 1..Len(file.rows) :
                     /\ all_items'[n + k].description =
                            file.rows[k][claimed_column("description", file.columns)].text
                     /\ all_items'[n + k].quantity =
                            QtyNum(file.rows[k][claimed_column("quantity", file.columns)].num[1])
       ]_vars

\* C8: the accumulated rows never hold two rows equal in every field.
C8_AccumulatedRowsAreDistinct == NoTwoEqualRows(demo_df)

====
